---- MODULE Spec2Model ----
(***************************************************************************)
(* Model of the charon daemon's actor / event-broker runtime               *)
(* (crates/daemon/src/daemon.rs, crates/shared/src/event/topic.rs).        *)
(*                                                                         *)
(* The Daemon orchestrator is modelled from daemon.rs.  EventBroker and    *)
(* the concrete actor loops are not part of the sources at hand; they are  *)
(* modelled from the design document (sections 4.2, 4.3 and 5).            *)
(***************************************************************************)
EXTENDS Integers, Sequences, FiniteSets, TLC

(* ------------------------------ bounds -------------------------------- *)

\* number of registration calls the builder makes in one run of the model
MaxActors == 2
\* number of events the actors emit in one run of the model; also the number
\* of classifier calls, of AppManager calls and of client loop turns
MaxEvents == 2
\* capacity of every mpsc channel in the model; stands for the 128 slots of
\* mpsc::channel::<Event>(128)
ChanCap == 1
\* number of RunApp commands the client may be handling one inside the other
MaxDepth == 2

(* ------------------------- events and topics -------------------------- *)

Modes == {"PassThrough", "InApp"}

Topics == {"System", "TextInput", "KeyInput", "KeyOutput", "Stats",
           "Monitoring", "Telemetry"}

DomainEvents == {"KeyPress", "KeyRelease", "HidReport", "SendText", "SendFile",
                 "TextSent", "CurrentStats", "ModeChange", "Exit", "Sleep",
                 "WakeUp", "ReportSent"}

\* a classifier that files TextSent under Telemetry
TopicOfMisfiled(payload) ==
    CASE payload[1] \in {"KeyPress", "KeyRelease"}                -> "KeyInput"
      [] payload[1] = "HidReport"                                 -> "KeyOutput"
      [] payload[1] \in {"SendText", "SendFile"}                  -> "TextInput"
      [] payload[1] = "CurrentStats"                              -> "Stats"
      [] payload[1] \in {"ModeChange", "Exit", "Sleep", "WakeUp"} -> "System"
      [] payload[1] \in {"ReportSent", "TextSent"}                -> "Telemetry"

\* impl From<&DomainEvent> for Topic; a payload is <<variant, argument>>
TopicOf(payload) ==
    CASE payload[1] = "KeyPress"     -> "KeyInput"
      [] payload[1] = "KeyRelease"   -> "KeyInput"
      [] payload[1] = "HidReport"    -> "KeyOutput"
      [] payload[1] = "SendText"     -> "TextInput"
      [] payload[1] = "SendFile"     -> "TextInput"
      [] payload[1] = "TextSent"     -> "Monitoring"
      [] payload[1] = "CurrentStats" -> "Stats"
      [] payload[1] = "ModeChange"   -> "System"
      [] payload[1] = "Exit"         -> "System"
      [] payload[1] = "Sleep"        -> "System"
      [] payload[1] = "WakeUp"       -> "System"
      [] payload[1] = "ReportSent"   -> "Telemetry"

\* the values of a variant's fields the model tells apart
PayloadArgs(variant) ==
    IF variant = "ModeChange" THEN Modes
    ELSE IF variant \in {"KeyPress", "KeyRelease", "HidReport", "SendText", "SendFile",
                         "CurrentStats"}
    THEN {"a", "b"}
    ELSE {"none"}

\* every DomainEvent value of the model
Payloads == UNION {{<<v, x>> : x \in PayloadArgs(v)} : v \in DomainEvents}

\* the event variants the actors of the model emit
EmitKinds == {"KeyPress", "ModeChange"}

\* a mode-change event asks for the mode other than the current one
Toggle(m) == IF m = "PassThrough" THEN "InApp" ELSE "PassThrough"

\* the topic slices the registration calls of the model are given
TopicChoices == {{"KeyInput"}, {"System"}}

\* the processor factory lists given to add_actor_with_processors / add_pipeline
FactoryLists == {<<"pass", "filter">>}

ExitPayload == <<"Exit", "none">>

\* Event::new(source, payload); id is a history tag that tells two equal
\* events apart (0 for the broker's own Exit event)
NewEvent(source, payload, id) == [source |-> source, payload |-> payload, id |-> id]

ActorName(a) == <<"actor", a>>

(* ------------------------------- state -------------------------------- *)

VARIABLES
    pc,           \* where the orchestrator's caller is in the lifecycle
    subscribers,  \* EventBroker.subscribers: Seq of [name, sender, topics]
    tasks,        \* Daemon.tasks: Seq of task handles (actor indices)
    actors,       \* per registration call: the spawned task and its ActorState
    cells,        \* the heap of RwLock<Mode> cells, by reference
    inbox,        \* the broker's inbound channel (event_tx -> broker_rx)
    chan,         \* the actors' inbound channels, by channel id
    outbox,       \* per subscriber: events the broker still has to enqueue
    out,          \* per actor: the event it is suspended sending, or NoEvent
    drain,        \* Daemon::shutdown: the handles self.tasks.drain(..) still holds
    calls,        \* history: the registration calls made, in order
    seen,         \* history: events the broker took from its inbound channel
    routed,       \* history: per subscriber, events the broker chose for it
    delivered,    \* history: per channel, events enqueued into it
    got,          \* history: per actor, events it took from its channel
    nextId,       \* history: next event tag
    sendErrors,   \* history: the SendError log lines of the broker
    joined,       \* history: handles shutdown has awaited, in order
    joinErrors,   \* history: number of JoinError log lines of shutdown
    retained,     \* history: Daemon.tasks when shutdown was entered
    lastWritten,  \* history: the value of the last completed Mode write
    excluded,     \* history: add_actor_conditionally calls with should_add false
    given,        \* history: per call, the factory list it was given
    pout,         \* per pipeline: chain outputs it still has to send
    ptrace,       \* history: per pipeline and event handled, what each processor saw
    psent,        \* history: per pipeline, outputs sent, with the event they are for
    classified,   \* history: the calls of Topic::from and their results
    app_mngr,     \* CharonClient.app_mngr: [apps, active_id, is_awake]
    should_quit,  \* CharonClient.should_quit
    line,         \* the line buffer of CharonClient::run
    cpc,          \* where the client is: "none", "select", "read", "tick", "returned"
    call,         \* the message update_with_msg is about to handle, or NoMsg
    stack,        \* the RunApp commands being handled, innermost last
    inflight,     \* the record the pending read_line has taken a part of
    turns,        \* history: number of select! branches completed
    lines,        \* history: the lines read_line returned
    dispatched,   \* history: the messages run handed to update_with_msg
    switched,     \* history: the last RunApp command handled, with what it did
    last          \* history: the last call a caller made of AppManager's own API

\* the daemon: orchestrator, broker and actors
daemonVars == <<pc, subscribers, tasks, actors, cells, inbox, chan, outbox, out, drain, calls,
                seen, routed, delivered, got, nextId, sendErrors, joined, joinErrors,
                retained, lastWritten, excluded, given>>

\* the work of the pipeline actors
pipeVars == <<pout, ptrace, psent>>

\* the topic classifier's call history
topicVars == <<classified>>

\* the terminal client
clientVars == <<app_mngr, should_quit, line, cpc, call, stack, inflight, turns, lines,
                dispatched, switched, last>>

\* what no step of the daemon touches
nonDaemon == <<pipeVars, topicVars, clientVars>>

vars == <<daemonVars, pipeVars, topicVars, clientVars>>

ActorIds == 1 .. MaxActors

NoEvent == [source |-> <<"none", 0>>, payload |-> <<"none", "none">>, id |-> -1]

NoActor == [st |-> "none", rx |-> 0, mode |-> 0, procs |-> <<>>, stalled |-> FALSE]

\* Daemon.mode after Daemon::new: Arc::new(RwLock::new(Mode::PassThrough))
DaemonMode == 1

\* an AppMsg is <<kind, variant, argument>>: Backend(DomainEvent),
\* TimerTick(..), Activate, Deactivate; NoMsg: no message at hand
NoMsg == <<"none", "none", "none">>

\* a Command is <<kind, argument>>; NoCmd is Option::None
NoCmd == <<"None", "none">>

\* a record of the socket's stream is <<kind, variant, argument>>
NoRecord == <<"none", "none", "none">>

\* no call of AppManager::update yet
NoManager == [apps |-> {}, active_id |-> "none", is_awake |-> TRUE]

\* no RunApp command handled yet
NoSwitch == [app |-> "none", registered |-> FALSE, prev |-> "none", after |-> "none",
             did |-> <<>>]

NoUpdate == [msg |-> NoMsg, cmd |-> NoCmd, before |-> NoManager, after |-> NoManager,
             to |-> "none"]

\* no client process: the daemon is looked at on its own
NoClient ==
    /\ app_mngr = NoManager
    /\ should_quit = FALSE
    /\ line = <<>>
    /\ cpc = "none"
    /\ call = NoMsg
    /\ stack = <<>>
    /\ inflight = NoRecord
    /\ turns = 0
    /\ lines = <<>>
    /\ dispatched = <<>>
    /\ switched = NoSwitch
    /\ last = NoUpdate

\* the state after Daemon::new
DaemonNew ==
    /\ pc = "build"
    /\ subscribers = <<>>
    /\ tasks = <<>>
    /\ actors = [a \in ActorIds |-> NoActor]
    /\ cells = (DaemonMode :> "PassThrough")
    /\ inbox = <<>>
    /\ chan = [c \in ActorIds |-> <<>>]
    /\ outbox = [s \in ActorIds |-> <<>>]
    /\ out = [a \in ActorIds |-> NoEvent]
    /\ drain = <<>>
    /\ calls = <<>>
    /\ seen = <<>>
    /\ routed = [s \in ActorIds |-> <<>>]
    /\ delivered = [c \in ActorIds |-> <<>>]
    /\ got = [a \in ActorIds |-> <<>>]
    /\ nextId = 1
    /\ sendErrors = <<>>
    /\ joined = <<>>
    /\ joinErrors = 0
    /\ retained = <<>>
    /\ lastWritten = "PassThrough"
    /\ excluded = 0
    /\ given = [a \in ActorIds |-> <<>>]
    /\ pout = [a \in ActorIds |-> <<>>]
    /\ ptrace = [a \in ActorIds |-> <<>>]
    /\ psent = [a \in ActorIds |-> <<>>]
    /\ classified = <<>>

Init == DaemonNew /\ NoClient


(* --------------------------- pure helpers ----------------------------- *)

Range(q) == {q[i] : i \in DOMAIN q}

\* mpsc::channel::<Event>(128): a first-in first-out queue of bounded capacity
ChanHasRoom(q) == Len(q) < ChanCap

ChanSend(q, e) == Append(q, e)

ChanFront(q) == Head(q)

ChanPop(q) == Tail(q)

\* a clone that copies the cell instead of the handle
ModeDeepCopy(heap, r) ==
    LET n == Cardinality(DOMAIN heap) + 1
    IN  [heap |-> heap @@ (n :> heap[r]), ref |-> n]

\* self.mode.clone(): Arc::clone gives another handle to the same cell
ModeClone(heap, r) == [heap |-> heap, ref |-> r]

\* a collect that puts each new processor in front of the earlier ones
RECURSIVE BuildProcessorsReversed(_, _, _)
BuildProcessorsReversed(heap, stateRef, factories) ==
    IF factories = <<>>
    THEN [heap |-> heap, procs |-> <<>>]
    ELSE LET c    == ModeClone(heap, stateRef)
             rest == BuildProcessorsReversed(c.heap, stateRef, Tail(factories))
         IN  [heap  |-> rest.heap,
              procs |-> rest.procs \o <<[ctor |-> Head(factories), mode |-> c.ref]>>]

\* ProcessorState::new(name, self.mode.clone(), ..) followed by
\* factories.iter().map(|f| f(state.clone())).collect()
RECURSIVE BuildProcessors(_, _, _)
BuildProcessors(heap, stateRef, factories) ==
    IF factories = <<>>
    THEN [heap |-> heap, procs |-> <<>>]
    ELSE LET c    == ModeClone(heap, stateRef)
             rest == BuildProcessors(c.heap, stateRef, Tail(factories))
         IN  [heap  |-> rest.heap,
              procs |-> <<[ctor |-> Head(factories), mode |-> c.ref]>> \o rest.procs]

\* let (pt_tx, pt_rx) = mpsc::channel::<Event>(128): a fresh channel per call
NewChannel(a) == a

\* a registration that subscribes the actor to every topic
AddSubscriberAllTopics(subs, sender, name, topics) ==
    Append(subs, [name |-> name, sender |-> sender, topics |-> Topics])

\* self.broker.add_subscriber(pt_tx, name.clone(), topics)
AddSubscriber(subs, sender, name, topics) ==
    Append(subs, [name |-> name, sender |-> sender, topics |-> topics])

\* a registration that forgets the earlier handles when a spawn fails
PushTaskOrClear(ts, a, ok) == IF ok THEN Append(ts, a) ELSE <<>>

\* match T::spawn(state, init) { Ok(task) => self.tasks.push(task), Err(err) => error!(..) }
PushTask(ts, a, ok) == IF ok THEN Append(ts, a) ELSE ts

\* T::spawn(state, init): the task owns the state, or the state is dropped
Spawn(state, ok) == IF ok THEN state ELSE [NoActor EXCEPT !.st = "failed"]

\* the part of the daemon a registration call works on
DaemonRec == [subscribers |-> subscribers, tasks |-> tasks, actors |-> actors,
              cells |-> cells, calls |-> calls]

\* a registration that subscribes the actor only once its spawn succeeded
RegisterActorSubscribeOnOk(d, name, topics, procs, ok, stalled) ==
    LET a  == Len(d.calls) + 1
        c  == NewChannel(a)
        m  == ModeClone(d.cells, DaemonMode)
        st == [st |-> "running", rx |-> c, mode |-> m.ref, procs |-> procs,
               stalled |-> stalled]
    IN  [subscribers |-> IF ok THEN AddSubscriber(d.subscribers, c, name, topics)
                         ELSE d.subscribers,
         tasks       |-> PushTask(d.tasks, a, ok),
         actors      |-> [d.actors EXCEPT ![a] = Spawn(st, ok)],
         cells       |-> m.heap,
         calls       |-> Append(d.calls, [name |-> name, topics |-> topics, ok |-> ok,
                                          nprocs |-> Len(procs)])]

\* Daemon::register_actor; ok is the result of T::spawn, stalled the behaviour
\* of the spawned task (an actor that stops taking events from its channel)
RegisterActor(d, name, topics, procs, ok, stalled) ==
    LET a  == Len(d.calls) + 1
        c  == NewChannel(a)
        m  == ModeClone(d.cells, DaemonMode)
        st == [st |-> "running", rx |-> c, mode |-> m.ref, procs |-> procs,
               stalled |-> stalled]
    IN  [subscribers |-> AddSubscriber(d.subscribers, c, name, topics),
         tasks       |-> PushTask(d.tasks, a, ok),
         actors      |-> [d.actors EXCEPT ![a] = Spawn(st, ok)],
         cells       |-> m.heap,
         calls       |-> Append(d.calls, [name |-> name, topics |-> topics, ok |-> ok,
                                          nprocs |-> Len(procs)])]

\* the daemon after a registration call
Install(d) ==
    /\ subscribers' = d.subscribers
    /\ tasks' = d.tasks
    /\ actors' = d.actors
    /\ cells' = d.cells
    /\ calls' = d.calls
    /\ UNCHANGED <<drain, pc, inbox, chan, outbox, out, seen, routed, delivered, got, nextId,
                   sendErrors, joined, joinErrors, retained, lastWritten>>
    /\ UNCHANGED <<excluded, nonDaemon>>

\* the call that registers actor a was given the factory list fs
GivenFactories(a, fs) == given' = [given EXCEPT ![a] = fs]

\* the builder calls are made before run() (section 4.5); the model bounds
\* the number of calls the builder makes
CanRegister(n) == pc = "build" /\ Len(calls) + excluded + n <= MaxActors

(* ------------------------ registration actions ------------------------ *)

\* Daemon::add_actor
AddActor(topics, ok, stalled) ==
    /\ CanRegister(1)
    /\ Install(RegisterActor(DaemonRec, ActorName(Len(calls) + 1), topics, <<>>, ok, stalled))
    /\ UNCHANGED given

\* Daemon::add_actor_conditionally
AddActorConditionally(should_add, topics, ok, stalled) ==
    /\ pc = "build"
    /\ IF should_add
       THEN AddActor(topics, ok, stalled)
       ELSE /\ CanRegister(1)
            /\ excluded' = excluded + 1
            /\ UNCHANGED <<pc, subscribers, tasks, actors, cells, inbox, chan, outbox, out,
                           drain, calls, seen, routed, delivered, got, nextId, sendErrors,
                           joined, joinErrors, retained, lastWritten, given, nonDaemon>>

\* Daemon::add_actor_with_init
AddActorWithInit(topics, ok, stalled) ==
    /\ CanRegister(1)
    /\ Install(RegisterActor(DaemonRec, ActorName(Len(calls) + 1), topics, <<>>, ok, stalled))
    /\ UNCHANGED given

\* Daemon::add_actor_with_processors
AddActorWithProcessors(topics, factories, ok, stalled) ==
    /\ CanRegister(1)
    /\ LET state == ModeClone(cells, DaemonMode)
           built == BuildProcessors(state.heap, state.ref, factories)
       IN  Install(RegisterActor([DaemonRec EXCEPT !.cells = built.heap],
                                 ActorName(Len(calls) + 1), topics, built.procs, ok, stalled))
    /\ GivenFactories(Len(calls) + 1, factories)

\* Daemon::add_pipeline
AddPipeline(topics, factories, ok, stalled) ==
    /\ CanRegister(1)
    /\ LET state == ModeClone(cells, DaemonMode)
           built == BuildProcessors(state.heap, state.ref, factories)
       IN  Install(RegisterActor([DaemonRec EXCEPT !.cells = built.heap],
                                 <<"pipeline", Len(calls) + 1>>, topics, built.procs,
                                 ok, stalled))
    /\ GivenFactories(Len(calls) + 1, factories)

\* Daemon::add_scanners: one KeyScanner per keyboard of the configuration;
\* oks[i] is the result of spawning the scanner of keyboard i
RECURSIVE RegisterScanners(_, _, _)
RegisterScanners(d, topics, oks) ==
    IF oks = <<>>
    THEN d
    ELSE RegisterScanners(
             RegisterActor(d, <<"KeyScanner", Len(d.calls) + 1>>, topics, <<>>,
                           Head(oks), FALSE),
             topics, Tail(oks))

AddScanners(topics, oks) ==
    /\ CanRegister(Len(oks))
    /\ Install(RegisterScanners(DaemonRec, topics, oks))
    /\ UNCHANGED given

\* the spawn results of the scanners of a configuration with 0, 1 or 2 keyboards
ScannerSpawns == {<<>>, <<TRUE>>, <<FALSE>>, <<TRUE, FALSE>>}

\* the registration calls of the builder; the spawned tasks follow the
\* actor contract (none is stalled)
Register ==
    \/ \E tp \in TopicChoices, ok \in BOOLEAN : AddActor(tp, ok, FALSE)
    \/ \E sa \in BOOLEAN, tp \in TopicChoices, ok \in BOOLEAN :
           AddActorConditionally(sa, tp, ok, FALSE)
    \/ \E tp \in TopicChoices, ok \in BOOLEAN : AddActorWithInit(tp, ok, FALSE)
    \/ \E tp \in TopicChoices, fs \in FactoryLists, ok \in BOOLEAN :
           AddActorWithProcessors(tp, fs, ok, FALSE)
    \/ \E tp \in TopicChoices, fs \in FactoryLists, ok \in BOOLEAN :
           AddPipeline(tp, fs, ok, FALSE)
    \/ \E tp \in TopicChoices, oks \in ScannerSpawns : AddScanners(tp, oks)

(* ------------------------------ broker -------------------------------- *)
(* EventBroker, after sections 4.2 and 5 of the design document: run()     *)
(* takes events from the inbound channel in arrival order and hands a copy *)
(* to every subscriber whose topic set holds the event's topic; forwarding *)
(* proceeds per subscriber, so a full channel holds back only the queue of *)
(* its own subscriber; a send to a dropped receiver is logged.             *)

SubIds == 1 .. Len(subscribers)

\* the subscribers broadcast(event, force) hands the event to
BroadcastTo(e, force) ==
    {s \in SubIds : force \/ TopicOf(e.payload) \in subscribers[s].topics}

\* a broker that hands the newest event over first
EnqueueFront(f, S, e) == [s \in DOMAIN f |-> IF s \in S THEN <<e>> \o f[s] ELSE f[s]]

\* the event e joins the queues of the subscribers in S
Enqueue(f, S, e) == [s \in DOMAIN f |-> IF s \in S THEN Append(f[s], e) ELSE f[s]]

\* EventBroker::broadcast
Broadcast(e, force) ==
    /\ outbox' = Enqueue(outbox, BroadcastTo(e, force), e)
    /\ routed' = Enqueue(routed, BroadcastTo(e, force), e)

\* the receiver of channel c is held by the ActorState of a live task
RxOpen(c) == \E a \in ActorIds : actors[a].st = "running" /\ actors[a].rx = c

\* senders of the broker's inbound channel: Daemon.event_tx, and the clone in
\* the ActorState of every live task
InboundSenders ==
    {<<"daemon", 0>>} \cup {<<"task", a>> : a \in {b \in ActorIds : actors[b].st = "running"}}

InboundClosed == InboundSenders = {} /\ inbox = <<>>

\* a broker that gives up the event for everybody when one send fails
OnSendErrorDropAll(s) ==
    /\ outbox' = [t \in DOMAIN outbox |-> <<>>]
    /\ sendErrors' = Append(sendErrors, [sub |-> s, event |-> Head(outbox[s])])
    /\ UNCHANGED <<chan, delivered>>

\* a send to a dropped receiver fails: the broker logs it and goes on
OnSendError(s) ==
    /\ outbox' = [outbox EXCEPT ![s] = Tail(@)]
    /\ sendErrors' = Append(sendErrors, [sub |-> s, event |-> Head(outbox[s])])
    /\ UNCHANGED <<chan, delivered>>

\* a broker that awaits the sends of an event one subscriber after the other
CanForwardInOrder(s) ==
    /\ s \in SubIds
    /\ outbox[s] # <<>>
    /\ \A t \in SubIds : t < s => outbox[t] = <<>>

\* the broker may forward the head of subscriber s's queue
CanForward(s) == s \in SubIds /\ outbox[s] # <<>>

\* sender.send(event.clone()).await for subscriber s
Forward(s) ==
    /\ CanForward(s)
    /\ LET c == subscribers[s].sender
           e == Head(outbox[s])
       IN  IF RxOpen(c)
           THEN /\ ChanHasRoom(chan[c])
                /\ chan' = [chan EXCEPT ![c] = ChanSend(@, e)]
                /\ delivered' = [delivered EXCEPT ![c] = Append(@, e)]
                /\ outbox' = [outbox EXCEPT ![s] = Tail(@)]
                /\ UNCHANGED sendErrors
           ELSE OnSendError(s)
    /\ UNCHANGED <<drain, pc, subscribers, tasks, actors, cells, inbox, out, calls, seen, routed,
                   got, nextId, joined, joinErrors, retained, lastWritten>>
    /\ UNCHANGED <<excluded, given, nonDaemon>>

(* ----------------------------- lifecycle ------------------------------ *)

\* a stop() whose broadcast is not forced
StopUnforced == FALSE

\* self.broker.broadcast(&event, true) in Daemon::stop
StopForce == TRUE

\* Daemon::stop
StopBroadcast == Broadcast(NewEvent(<<"broker", 0>>, ExitPayload, 0), StopForce)

\* a daemon whose broker loop is started by Daemon::new
BrokerLoopFromNew == pc \in {"build", "run"}

\* the broker loop runs inside Daemon::run, and nowhere else
BrokerLoopActive == pc = "run"

\* the caller awaits Daemon::run
StartRun ==
    /\ pc = "build"
    /\ pc' = "run"
    /\ UNCHANGED <<drain, subscribers, tasks, actors, cells, inbox, chan, outbox, out, calls, seen,
                   routed, delivered, got, nextId, sendErrors, joined, joinErrors, retained,
                   lastWritten>>
    /\ UNCHANGED <<excluded, given, nonDaemon>>

\* Daemon::run: one turn of self.broker.run().await, then self.stop().await
\* once the inbound channel is closed
BrokerRun ==
    /\ BrokerLoopActive
    /\ IF inbox # <<>>
       THEN /\ inbox' = ChanPop(inbox)
            /\ seen' = Append(seen, ChanFront(inbox))
            /\ Broadcast(ChanFront(inbox), FALSE)
            /\ UNCHANGED pc
       ELSE /\ InboundClosed
            /\ StopBroadcast
            /\ pc' = "stopped"
            /\ UNCHANGED <<inbox, seen>>
    /\ UNCHANGED <<drain, subscribers, tasks, actors, cells, chan, out, calls, delivered, got,
                   nextId, sendErrors, joined, joinErrors, retained, lastWritten>>
    /\ UNCHANGED <<excluded, given, nonDaemon>>

\* the caller drops the future of Daemon::run at its await (a signal, a select!)
RunCancel ==
    /\ pc = "run"
    /\ pc' = "idle"
    /\ UNCHANGED <<drain, subscribers, tasks, actors, cells, inbox, chan, outbox, out, calls, seen,
                   routed, delivered, got, nextId, sendErrors, joined, joinErrors, retained,
                   lastWritten>>
    /\ UNCHANGED <<excluded, given, nonDaemon>>

\* the caller awaits Daemon::stop
Stop ==
    /\ pc = "idle"
    /\ StopBroadcast
    /\ pc' = "stopped"
    /\ UNCHANGED <<drain, subscribers, tasks, actors, cells, inbox, chan, out, calls, seen,
                   delivered, got, nextId, sendErrors, joined, joinErrors, retained,
                   lastWritten>>
    /\ UNCHANGED <<excluded, given, nonDaemon>>

Ended(a) == actors[a].st \in {"finished", "panicked"}

\* Daemon::shutdown is entered: self.tasks.drain(..) takes every handle out
\* of the vector
ShutdownStart ==
    /\ pc = "stopped"
    /\ pc' = "shutdown"
    /\ drain' = tasks
    /\ tasks' = <<>>
    /\ retained' = tasks
    /\ UNCHANGED <<subscribers, actors, cells, inbox, chan, outbox, out, calls, seen, routed,
                   delivered, got, nextId, sendErrors, joined, joinErrors, lastWritten>>
    /\ UNCHANGED <<excluded, given, nonDaemon>>

\* a shutdown that returns at the first join error
AfterJoinReturnOnError(failed) == IF failed THEN "done" ELSE "shutdown"

\* where Daemon::shutdown goes after handle.await resolved; failed tells
\* whether it resolved to a join error, which is logged: on to the next handle
AfterJoin(failed) == "shutdown"

\* Daemon::shutdown: handle.await for the next drained handle
ShutdownJoin ==
    /\ pc = "shutdown"
    /\ drain # <<>>
    /\ Ended(Head(drain))
    /\ LET failed == actors[Head(drain)].st = "panicked"
       IN  /\ drain' = Tail(drain)
           /\ joined' = Append(joined, Head(drain))
           /\ joinErrors' = joinErrors + (IF failed THEN 1 ELSE 0)
           /\ pc' = AfterJoin(failed)
    /\ UNCHANGED <<subscribers, tasks, actors, cells, inbox, chan, outbox, out, calls, seen,
                   routed, delivered, got, nextId, sendErrors, retained, lastWritten>>
    /\ UNCHANGED <<excluded, given, nonDaemon>>

\* Daemon::shutdown returns: the drain is over
ShutdownReturn ==
    /\ pc = "shutdown"
    /\ drain = <<>>
    /\ pc' = "done"
    /\ UNCHANGED <<drain, subscribers, tasks, actors, cells, inbox, chan, outbox, out, calls,
                   seen, routed, delivered, got, nextId, sendErrors, joined, joinErrors,
                   retained, lastWritten>>
    /\ UNCHANGED <<excluded, given, nonDaemon>>

(* ------------------------------- actors ------------------------------- *)
(* The actor loop, after section 4.3 of the design document: take the next *)
(* event from the inbound channel; end on Exit; otherwise do the actor's   *)
(* work, which may emit events through the outbound sender.  A send to a   *)
(* full channel suspends the sender (section 5).                           *)

Runnable(a) == actors[a].st = "running" /\ ~actors[a].stalled

\* the task of actor a ends: its ActorState is dropped
EndTask(a, how) ==
    /\ actors' = [actors EXCEPT ![a].st = how]
    /\ out' = [out EXCEPT ![a] = NoEvent]

\* actor a's work yields an event to emit
ActorProduce(a, k) ==
    /\ Runnable(a)
    /\ out[a] = NoEvent
    /\ nextId <= MaxEvents
    /\ LET p == IF k = "ModeChange"
                THEN <<k, Toggle(cells[actors[a].mode])>>
                ELSE <<k, "none">>
       IN  out' = [out EXCEPT ![a] = NewEvent(calls[a].name, p, nextId)]
    /\ nextId' = nextId + 1
    /\ UNCHANGED <<drain, pc, subscribers, tasks, actors, cells, inbox, chan, outbox, calls, seen,
                   routed, delivered, got, sendErrors, joined, joinErrors, retained,
                   lastWritten>>
    /\ UNCHANGED <<excluded, given, nonDaemon>>

\* state.sender.send(event).await of actor a completes
ActorSend(a) ==
    /\ Runnable(a)
    /\ out[a] # NoEvent
    /\ ChanHasRoom(inbox)
    /\ inbox' = ChanSend(inbox, out[a])
    /\ out' = [out EXCEPT ![a] = NoEvent]
    /\ UNCHANGED <<drain, pc, subscribers, tasks, actors, cells, chan, outbox, calls, seen, routed,
                   delivered, got, nextId, sendErrors, joined, joinErrors, retained,
                   lastWritten>>
    /\ UNCHANGED <<excluded, given, nonDaemon>>

\* actor a takes the next event from its inbound channel and handles it; a
\* mode-change event is handled by writing Mode; panics tells whether the
\* actor's work on the event panics
ActorRecv(a, panics) ==
    /\ Runnable(a)
    /\ out[a] = NoEvent
    /\ chan[actors[a].rx] # <<>>
    /\ LET c == actors[a].rx
           e == ChanFront(chan[c])
       IN  /\ got' = [got EXCEPT ![a] = Append(@, e)]
           /\ IF e.payload = ExitPayload
              THEN /\ ~panics
                   /\ EndTask(a, "finished")
                   /\ chan' = [chan EXCEPT ![c] = <<>>]
                   /\ UNCHANGED <<cells, lastWritten>>
              ELSE IF panics
              THEN /\ EndTask(a, "panicked")
                   /\ chan' = [chan EXCEPT ![c] = <<>>]
                   /\ UNCHANGED <<cells, lastWritten>>
              ELSE /\ chan' = [chan EXCEPT ![c] = ChanPop(@)]
                   /\ IF e.payload[1] = "ModeChange"
                      THEN /\ cells' = [cells EXCEPT ![actors[a].mode] = e.payload[2]]
                           /\ lastWritten' = e.payload[2]
                      ELSE UNCHANGED <<cells, lastWritten>>
                   /\ UNCHANGED <<actors, out>>
    /\ UNCHANGED <<drain, pc, subscribers, tasks, inbox, outbox, calls, seen, routed, delivered,
                   nextId, sendErrors, joined, joinErrors, retained>>
    /\ UNCHANGED <<excluded, given, nonDaemon>>

(* ------------------------------ pipelines ----------------------------- *)
(* The Pipeline actor, after section 4.4 of the design document: each      *)
(* inbound event is fed to processor 0, its outputs to processor 1, and so *)
(* on; what the last processor yields is sent to the broker.  The          *)
(* processors of the model stand for the three shapes of process(event):   *)
(* zero, one or many resulting events.                                     *)

\* the factory lists the pipeline runs give to add_pipeline
PipeFactoryLists == {<<"filter", "report">>, <<"pass", "filter", "report">>,
                     <<"split", "filter", "report">>}

\* the event variants the source actors of the pipeline runs emit
PipeKinds == {"KeyPress", "KeyRelease"}

\* the payload of e replaced
WithPayload(e, payload) == [e EXCEPT !.payload = payload]

\* Processor::process of the processor built by constructor ctor: "pass"
\* yields the event, "filter" yields nothing for a key release, "split"
\* yields a press and a release for a key press, "report" turns a key event
\* into a HID report
Process(ctor, e) ==
    CASE ctor = "pass"   -> <<e>>
      [] ctor = "filter" -> IF e.payload[1] = "KeyRelease" THEN <<>> ELSE <<e>>
      [] ctor = "split"  -> IF e.payload[1] = "KeyPress"
                            THEN <<e, WithPayload(e, <<"KeyRelease", "none">>)>>
                            ELSE <<e>>
      [] ctor = "report" -> IF e.payload[1] \in {"KeyPress", "KeyRelease"}
                            THEN <<WithPayload(e, <<"HidReport", e.payload[1]>>)>>
                            ELSE <<e>>

\* what a processor yields for the events es, one after the other
RECURSIVE FeedAll(_, _)
FeedAll(ctor, es) ==
    IF es = <<>> THEN <<>> ELSE Process(ctor, Head(es)) \o FeedAll(ctor, Tail(es))

\* the chain: saw[k] is what processor k was fed, outs what the last one
\* yielded; a processor that is fed nothing is not called
RECURSIVE RunChain(_, _)
RunChain(procs, es) ==
    IF procs = <<>>
    THEN [saw |-> <<>>, outs |-> es]
    ELSE LET r == RunChain(Tail(procs), FeedAll(Head(procs).ctor, es))
         IN  [saw |-> <<es>> \o r.saw, outs |-> r.outs]

\* the outputs es, each with the place j of the inbound event it is for
RECURSIVE OutputsFor(_, _)
OutputsFor(es, j) ==
    IF es = <<>> THEN <<>> ELSE <<[event |-> Head(es), for |-> j]>> \o OutputsFor(Tail(es), j)

\* the actor registered by call a is a Pipeline
IsPipeline(a) == a \in DOMAIN calls /\ calls[a].name[1] = "pipeline"

\* the pipeline takes the next event from its inbound channel and runs the
\* chain on it
PipeRecv(a) ==
    /\ Runnable(a)
    /\ IsPipeline(a)
    /\ pout[a] = <<>>
    /\ chan[actors[a].rx] # <<>>
    /\ LET c == actors[a].rx
           e == ChanFront(chan[c])
           r == RunChain(actors[a].procs, <<e>>)
       IN  /\ got' = [got EXCEPT ![a] = Append(@, e)]
           /\ IF e.payload = ExitPayload
              THEN /\ EndTask(a, "finished")
                   /\ chan' = [chan EXCEPT ![c] = <<>>]
                   /\ UNCHANGED <<pout, ptrace>>
              ELSE /\ chan' = [chan EXCEPT ![c] = ChanPop(@)]
                   /\ ptrace' = [ptrace EXCEPT ![a] = Append(@, r.saw)]
                   /\ pout' = [pout EXCEPT ![a] = OutputsFor(r.outs, Len(got[a]) + 1)]
                   /\ UNCHANGED <<actors, out>>
    /\ UNCHANGED <<pc, subscribers, tasks, cells, inbox, outbox, drain, calls, seen, routed,
                   delivered, nextId, sendErrors, joined, joinErrors, retained, lastWritten,
                   excluded, given, psent, topicVars, clientVars>>

\* the pipeline's send of its next output to the broker completes
PipeSend(a) ==
    /\ Runnable(a)
    /\ pout[a] # <<>>
    /\ ChanHasRoom(inbox)
    /\ inbox' = ChanSend(inbox, Head(pout[a]).event)
    /\ psent' = [psent EXCEPT ![a] = Append(@, Head(pout[a]))]
    /\ pout' = [pout EXCEPT ![a] = Tail(@)]
    /\ UNCHANGED <<pc, subscribers, tasks, actors, cells, chan, outbox, out, drain, calls, seen,
                   routed, delivered, got, nextId, sendErrors, joined, joinErrors, retained,
                   lastWritten, excluded, given, ptrace, topicVars, clientVars>>

(* -------------------------- topic classifier -------------------------- *)

\* a caller asks for the topic of a DomainEvent: Topic::from(&payload)
Classify(payload) ==
    /\ Len(classified) < MaxEvents
    /\ classified' = Append(classified, [payload |-> payload, topic |-> TopicOf(payload)])
    /\ UNCHANGED <<daemonVars, pipeVars, clientVars>>

(* ----------------------------- AppManager ----------------------------- *)
(* crates/client/src/root/app_manager.rs.  The apps themselves (dyn UiApp) *)
(* are not modelled: what an app's update returns is an input, any Command *)
(* or none.                                                                *)

\* the app names of the model
AppIds == {"charonsay", "menu", "editor"}

\* the app maps AppManager::new is given in the model
AppSets == {{"charonsay", "menu"}, {"menu", "editor"}}

\* the DomainEvents the daemon sends the client in the model
ClientPayloads == {<<"ModeChange", "PassThrough">>, <<"ModeChange", "InApp">>,
                   <<"Sleep", "none">>, <<"WakeUp", "none">>, <<"KeyPress", "a">>}

Backend(payload) == <<"Backend", payload[1], payload[2]>>

TimerTickMsg == <<"TimerTick", "none", "none">>

ActivateMsg == <<"Activate", "none", "none">>

DeactivateMsg == <<"Deactivate", "none", "none">>

AppMsgs == {Backend(p) : p \in ClientPayloads} \cup {TimerTickMsg, ActivateMsg, DeactivateMsg}

Render == <<"Render", "none">>

RunApp(app) == <<"RunApp", app>>

ExitCmd == <<"Exit", "none">>

\* what an app's update may return: Option<Command>
AppReplies ==
    {NoCmd, Render, ExitCmd, <<"SendEvent", "KeyPress">>, <<"SuspendTUI", "none">>,
     <<"ResumeTUI", "none">>} \cup {RunApp(a) : a \in AppIds}

\* AppManager::new
AppManagerNew(apps, active_id) == [apps |-> apps, active_id |-> active_id, is_awake |-> TRUE]

\* a mode_screen with the two screens swapped
ModeScreenSwapped(mode) ==
    CASE mode = "PassThrough" -> "menu"
      [] mode = "InApp"       -> "charonsay"

\* AppManager::mode_screen
ModeScreen(mode) ==
    CASE mode = "PassThrough" -> "charonsay"
      [] mode = "InApp"       -> "menu"

\* AppManager::has_app
HasApp(am, app) == app \in am.apps

\* a set_active that does not look the app up
SetActiveUnchecked(am, app) == [am EXCEPT !.active_id = app]

\* AppManager::set_active
SetActive(am, app) == IF HasApp(am, app) THEN [am EXCEPT !.active_id = app] ELSE am

\* AppManager::update; reply is what the active app's update returns when
\* the message is handed to it; to is the app the message was handed to
AppManagerUpdate(am, msg, reply) ==
    IF msg[1] = "Backend" /\ msg[2] = "ModeChange"
    THEN [am |-> [am EXCEPT !.active_id = ModeScreen(msg[3])], cmd |-> Render, to |-> "none"]
    ELSE IF msg[1] = "Backend" /\ msg[2] = "Sleep"
    THEN [am |-> [am EXCEPT !.is_awake = FALSE], cmd |-> NoCmd, to |-> "none"]
    ELSE IF msg[1] = "Backend" /\ msg[2] = "WakeUp"
    THEN [am |-> [am EXCEPT !.is_awake = TRUE], cmd |-> NoCmd, to |-> "none"]
    ELSE IF ~am.is_awake
    THEN [am |-> am, cmd |-> NoCmd, to |-> "none"]
    ELSE IF am.active_id \in am.apps
    THEN [am |-> am, cmd |-> reply, to |-> am.active_id]
    ELSE [am |-> am, cmd |-> NoCmd, to |-> "none"]

\* the record of a call of AppManager::update and of what it did
Updated(am, msg, r) == [msg |-> msg, cmd |-> r.cmd, before |-> am, after |-> r.am, to |-> r.to]

\* a caller of AppManager::update
ManagerUpdate(msg, reply) ==
    /\ cpc = "none"
    /\ app_mngr # NoManager
    /\ turns < MaxEvents
    /\ LET r == AppManagerUpdate(app_mngr, msg, reply)
       IN  /\ app_mngr' = r.am
           /\ last' = Updated(app_mngr, msg, r)
    /\ turns' = turns + 1
    /\ UNCHANGED <<should_quit, line, cpc, call, stack, inflight, lines, dispatched, switched>>
    /\ UNCHANGED <<daemonVars, pipeVars, topicVars>>

\* a caller of AppManager::set_active
ManagerSetActive(app) ==
    /\ cpc = "none"
    /\ app_mngr # NoManager
    /\ turns < MaxEvents
    /\ app_mngr' = SetActive(app_mngr, app)
    /\ last' = [msg |-> <<"set_active", app, "none">>, cmd |-> NoCmd, before |-> app_mngr,
                after |-> SetActive(app_mngr, app), to |-> "none"]
    /\ turns' = turns + 1
    /\ UNCHANGED <<should_quit, line, cpc, call, stack, inflight, lines, dispatched, switched>>
    /\ UNCHANGED <<daemonVars, pipeVars, topicVars>>

(* ---------------------------- CharonClient ---------------------------- *)
(* crates/client/src/client.rs.  run() races read_line against the timer   *)
(* tick; update_with_msg and handle_command call each other, which the     *)
(* model follows with an explicit stack of the RunApp commands in hand.    *)
(* The terminal and the socket writer are outside the model: Render,       *)
(* SendEvent, SuspendTUI and ResumeTUI change nothing here, and an error   *)
(* they return is logged by update_with_msg.                               *)

\* the lines the daemon may write: serialized Events, and lines that are not
Records ==
    {<<"event", p[1], p[2]>> : p \in ClientPayloads}
    \cup {<<"garbage", "none", "none">>, <<"blank", "none", "none">>}

\* the end of the stream: the daemon closed the socket
Eof == <<"eof", "none", "none">>

WellFormed(rec) == rec[1] = "event"

\* the part of record rec a pending read_line has taken in / has yet to come
HeadOf(rec) == <<"head", rec[2], rec[3]>>

TailOf(rec) == <<"tail", rec[2], rec[3]>>

\* what read_line can return next: with no read under way any line or the
\* end of the stream; with the head of a record taken in, the whole record,
\* or the head alone when the daemon closes; after a dropped read_line lost
\* the head, the tail alone, or the end of the stream
Arriving ==
    IF inflight = NoRecord THEN Records \cup {Eof}
    ELSE IF inflight[1] = "head"
    THEN {<<"event", inflight[2], inflight[3]>>, inflight}
    ELSE {TailOf(inflight), Eof}

\* Ok(bytes) of read_line
Bytes(rec) == IF rec = Eof THEN 0 ELSE 1

\* a client that takes the end of the stream for an empty line
PeerClosedNever(bytes) == FALSE

\* if bytes == 0
PeerClosed(bytes) == bytes = 0

\* read_line appends what it read to the buffer
ReadInto(buf, rec) == IF rec = Eof THEN buf ELSE Append(buf, rec)

\* a loop that forgets to clear the buffer
LineKeep(buf) == buf

\* line.clear()
LineClear(buf) == <<>>

\* serde_json::from_str::<Event>(&line.trim()): the buffer parses when it
\* holds one serialized Event and nothing else
Parse(buf) ==
    IF Len(buf) = 1 /\ WellFormed(buf[1])
    THEN <<"Ok", buf[1][2], buf[1][3]>>
    ELSE <<"Err", "none", "none">>

\* while !self.should_quit { .. }; ratatui::restore(); Ok(())
LoopTest(quit) == IF quit THEN "returned" ELSE "select"

\* a RunApp arm that makes the app active before it deactivates the old one
RunAppStepsSetFirst == <<"set_active", "Deactivate", "Activate", "redraw">>

\* the Command::RunApp arm of handle_command, for an app the map holds
RunAppSteps == <<"Deactivate", "set_active", "Activate", "redraw">>

\* the read_line future takes in the first part of a record and stays pending
ReadPart(rec) ==
    /\ cpc = "select"
    /\ turns < MaxEvents
    /\ inflight = NoRecord
    /\ WellFormed(rec)
    /\ inflight' = HeadOf(rec)
    /\ UNCHANGED <<app_mngr, should_quit, line, cpc, call, stack, turns, lines, dispatched,
                   switched, last>>
    /\ UNCHANGED <<daemonVars, pipeVars, topicVars>>

\* the read_line branch of select!: up to the call of update_with_msg for a
\* line that parses, the whole branch otherwise
ReadLine(rec) ==
    /\ cpc = "select"
    /\ turns < MaxEvents
    /\ rec \in Arriving
    /\ LET bytes  == Bytes(rec)
           buf    == ReadInto(line, rec)
           parsed == Parse(buf)
       IN  IF PeerClosed(bytes)
           THEN /\ should_quit' = TRUE
                /\ line' = LineClear(buf)
                /\ cpc' = LoopTest(TRUE)
                /\ turns' = turns + 1
                /\ lines' = Append(lines, [rec |-> rec, at |-> Len(dispatched),
                                           sent |-> Len(dispatched), turn |-> turns + 1,
                                           quit |-> TRUE, buf |-> LineClear(buf)])
                /\ UNCHANGED <<call, dispatched>>
           ELSE IF parsed[1] = "Ok"
           THEN /\ call' = Backend(<<parsed[2], parsed[3]>>)
                /\ dispatched' = Append(dispatched, Backend(<<parsed[2], parsed[3]>>))
                /\ line' = buf
                /\ cpc' = "read"
                /\ lines' = Append(lines, [rec |-> rec, at |-> Len(dispatched),
                                           sent |-> Len(dispatched) + 1, turn |-> turns + 1,
                                           quit |-> should_quit, buf |-> buf])
                /\ UNCHANGED <<should_quit, turns>>
           ELSE /\ line' = LineClear(buf)
                /\ cpc' = LoopTest(should_quit)
                /\ turns' = turns + 1
                /\ lines' = Append(lines, [rec |-> rec, at |-> Len(dispatched),
                                           sent |-> Len(dispatched), turn |-> turns + 1,
                                           quit |-> should_quit, buf |-> LineClear(buf)])
                /\ UNCHANGED <<should_quit, call, dispatched>>
    /\ inflight' = NoRecord
    /\ UNCHANGED <<app_mngr, stack, switched, last>>
    /\ UNCHANGED <<daemonVars, pipeVars, topicVars>>

\* the interval.tick() branch of select! wins: the pending read_line future
\* is dropped, and what it had taken in is lost with it
TimerTick ==
    /\ cpc = "select"
    /\ turns < MaxEvents
    /\ inflight' = IF inflight # NoRecord /\ inflight[1] = "head"
                   THEN <<"lost", inflight[2], inflight[3]>>
                   ELSE inflight
    /\ call' = TimerTickMsg
    /\ dispatched' = Append(dispatched, TimerTickMsg)
    /\ cpc' = "tick"
    /\ UNCHANGED <<app_mngr, should_quit, line, stack, turns, lines, switched, last>>
    /\ UNCHANGED <<daemonVars, pipeVars, topicVars>>

\* the RunApp command in hand notes that the app `to` was handed msg
Noted(frames, msg, to) ==
    IF frames # <<>> /\ to # "none" /\ msg \in {ActivateMsg, DeactivateMsg}
    THEN [frames EXCEPT ![Len(frames)].did = Append(@, <<msg[1], to>>)]
    ELSE frames

\* update_with_msg(call) up to the end of handle_command, or up to the
\* first nested update_with_msg of its RunApp arm
UpdateWithMsg(reply) ==
    /\ cpc \in {"read", "tick"}
    /\ call # NoMsg
    /\ LET r     == AppManagerUpdate(app_mngr, call, reply)
           noted == Noted(stack, call, r.to)
       IN  /\ app_mngr' = r.am
           /\ call' = NoMsg
           /\ should_quit' = (should_quit \/ r.cmd = ExitCmd)
           /\ IF r.cmd[1] = "RunApp"
              THEN IF HasApp(r.am, r.cmd[2])
                   THEN /\ Len(stack) < MaxDepth
                        /\ stack' = Append(noted, [app |-> r.cmd[2], prev |-> r.am.active_id,
                                                   at |-> 1, did |-> <<>>])
                        /\ UNCHANGED switched
                   ELSE /\ stack' = noted
                        /\ switched' = [app |-> r.cmd[2], registered |-> r.cmd[2] \in r.am.apps,
                                        prev |-> r.am.active_id, after |-> r.am.active_id,
                                        did |-> <<>>]
              ELSE /\ stack' = noted
                   /\ UNCHANGED switched
    /\ UNCHANGED <<line, cpc, inflight, turns, lines, dispatched, last>>
    /\ UNCHANGED <<daemonVars, pipeVars, topicVars>>

\* the next step of the RunApp arm for the command in hand
RunAppStep ==
    /\ cpc \in {"read", "tick"}
    /\ call = NoMsg
    /\ stack # <<>>
    /\ LET n    == Len(stack)
           top  == stack[n]
           step == RunAppSteps[top.at]
       IN  CASE step = "Deactivate" ->
                  /\ call' = DeactivateMsg
                  /\ stack' = [stack EXCEPT ![n].at = @ + 1]
                  /\ UNCHANGED <<app_mngr, switched>>
             [] step = "Activate" ->
                  /\ call' = ActivateMsg
                  /\ stack' = [stack EXCEPT ![n].at = @ + 1]
                  /\ UNCHANGED <<app_mngr, switched>>
             [] step = "set_active" ->
                  /\ app_mngr' = SetActive(app_mngr, top.app)
                  /\ stack' = [stack EXCEPT ![n].at = @ + 1,
                                           ![n].did = Append(@, <<"set_active",
                                               SetActive(app_mngr, top.app).active_id>>)]
                  /\ UNCHANGED <<call, switched>>
             [] step = "redraw" ->
                  /\ stack' = SubSeq(stack, 1, n - 1)
                  /\ switched' = [app |-> top.app, registered |-> top.app \in app_mngr.apps,
                                  prev |-> top.prev, after |-> app_mngr.active_id,
                                  did |-> top.did]
                  /\ UNCHANGED <<app_mngr, call>>
    /\ UNCHANGED <<should_quit, line, cpc, inflight, turns, lines, dispatched, last>>
    /\ UNCHANGED <<daemonVars, pipeVars, topicVars>>

\* update_with_msg has returned to run: the rest of the branch and the
\* loop test
BranchEnd ==
    /\ cpc \in {"read", "tick"}
    /\ call = NoMsg
    /\ stack = <<>>
    /\ line' = IF cpc = "read" THEN LineClear(line) ELSE line
    /\ turns' = turns + 1
    /\ cpc' = LoopTest(should_quit)
    /\ UNCHANGED <<app_mngr, should_quit, call, stack, inflight, lines, dispatched, switched,
                   last>>
    /\ UNCHANGED <<daemonVars, pipeVars, topicVars>>

(* --------------------------- specifications --------------------------- *)

Next ==
    \/ Register
    \/ StartRun
    \/ BrokerRun
    \/ RunCancel
    \/ Stop
    \/ ShutdownStart
    \/ ShutdownJoin
    \/ ShutdownReturn
    \/ \E s \in ActorIds : Forward(s)
    \/ \E a \in ActorIds, k \in EmitKinds : ActorProduce(a, k)
    \/ \E a \in ActorIds : ActorSend(a)
    \/ \E a \in ActorIds, p \in BOOLEAN : ActorRecv(a, p)

Spec == Init /\ [][Next]_vars

(* Liveness is checked over the runs in which the builder registers plain  *)
(* actors that spawn, some of which may be stalled, and no task panics.    *)
(* The runtime polls every task that can make progress, and the caller     *)
(* goes on from stop() to shutdown(): weak fairness of the broker's and    *)
(* the actors' steps and of the lifecycle steps after run().  Emitting an  *)
(* event, cancelling run() and registering are not forced.                 *)

RegisterPlain == \E tp \in TopicChoices, st \in BOOLEAN : AddActor(tp, TRUE, st)

FairNext ==
    \/ RegisterPlain
    \/ StartRun
    \/ BrokerRun
    \/ RunCancel
    \/ Stop
    \/ ShutdownStart
    \/ ShutdownJoin
    \/ ShutdownReturn
    \/ \E s \in ActorIds : Forward(s)
    \/ \E a \in ActorIds, k \in EmitKinds : ActorProduce(a, k)
    \/ \E a \in ActorIds : ActorSend(a)
    \/ \E a \in ActorIds : ActorRecv(a, FALSE)

Fairness ==
    /\ WF_vars(BrokerRun)
    /\ WF_vars(Stop)
    /\ WF_vars(ShutdownStart)
    /\ WF_vars(ShutdownJoin)
    /\ WF_vars(ShutdownReturn)
    /\ \A s \in ActorIds : WF_vars(Forward(s))
    /\ \A a \in ActorIds : WF_vars(ActorSend(a))
    /\ \A a \in ActorIds : WF_vars(ActorRecv(a, FALSE))

FairSpec == Init /\ [][FairNext]_vars /\ Fairness

(* The pipeline runs: the builder registers source actors and pipelines    *)
(* for key input; the sources emit key events, the broker routes them, the *)
(* pipelines run their chains and send what comes out.                     *)

PipeRegister ==
    \/ AddActor({"System"}, TRUE, FALSE)
    \/ \E fs \in PipeFactoryLists, ok \in BOOLEAN : AddPipeline({"KeyInput"}, fs, ok, FALSE)

PipeNext ==
    \/ PipeRegister
    \/ StartRun
    \/ BrokerRun
    \/ RunCancel
    \/ Stop
    \/ \E s \in ActorIds : Forward(s)
    \/ \E a \in ActorIds, k \in PipeKinds : ~IsPipeline(a) /\ ActorProduce(a, k)
    \/ \E a \in ActorIds : ActorSend(a)
    \/ \E a \in ActorIds : ~IsPipeline(a) /\ ActorRecv(a, FALSE)
    \/ \E a \in ActorIds : PipeRecv(a)
    \/ \E a \in ActorIds : PipeSend(a)

PipeSpec == Init /\ [][PipeNext]_vars

(* The classifier on its own: any caller, any DomainEvent, again and again. *)

TopicNext == \E p \in Payloads : Classify(p)

TopicSpec == Init /\ [][TopicNext]_vars

(* AppManager on its own: constructed with an app map and an active app of *)
(* that map, then given any sequence of update and set_active calls.       *)

AppInit ==
    /\ DaemonNew
    /\ \E apps \in AppSets : \E a \in apps : app_mngr = AppManagerNew(apps, a)
    /\ should_quit = FALSE
    /\ line = <<>>
    /\ cpc = "none"
    /\ call = NoMsg
    /\ stack = <<>>
    /\ inflight = NoRecord
    /\ turns = 0
    /\ lines = <<>>
    /\ dispatched = <<>>
    /\ switched = NoSwitch
    /\ last = NoUpdate

AppNext ==
    \/ \E m \in AppMsgs, r \in AppReplies : ManagerUpdate(m, r)
    \/ \E a \in AppIds : ManagerSetActive(a)

AppSpec == AppInit /\ [][AppNext]_vars

(* The client: CharonClient::new with an AppManager, then run(); the daemon *)
(* writes any lines, in one piece or in two, and may close the socket; the  *)
(* apps answer an update with any command or none.                          *)

ClientInit ==
    /\ DaemonNew
    /\ \E apps \in AppSets : \E a \in apps : app_mngr = AppManagerNew(apps, a)
    /\ should_quit = FALSE
    /\ line = <<>>
    /\ cpc = "select"
    /\ call = NoMsg
    /\ stack = <<>>
    /\ inflight = NoRecord
    /\ turns = 0
    /\ lines = <<>>
    /\ dispatched = <<>>
    /\ switched = NoSwitch
    /\ last = NoUpdate

ClientNext ==
    \/ \E rec \in Records : ReadPart(rec)
    \/ \E rec \in Records \cup {Eof} \cup {HeadOf(r) : r \in Records}
                    \cup {TailOf(r) : r \in Records} : ReadLine(rec)
    \/ TimerTick
    \/ \E reply \in AppReplies : UpdateWithMsg(reply)
    \/ RunAppStep
    \/ BranchEnd

ClientSpec == ClientInit /\ [][ClientNext]_vars

(* ------------------------------- claims ------------------------------- *)

\* the forced Exit broadcast of Daemon::stop has been issued
ExitIssued == pc \in {"stopped", "shutdown", "done"}

NoneStalled == \A a \in ActorIds : ~actors[a].stalled

AllTasksEnded == \A a \in ActorIds : actors[a].st # "running"

\* C1: once Daemon::stop has issued the forced Exit broadcast, every retained
\* actor task (each of them following the actor contract) ends and
\* Daemon::shutdown returns, whatever the channels held at the broadcast.
C1_ShutdownConverges == (ExitIssued /\ NoneStalled) ~> (AllTasksEnded /\ pc = "done")

\* an actor suspended in a send to the full inbound channel of a broker whose
\* loop no longer runs
StuckSender(a) ==
    /\ Runnable(a)
    /\ out[a] # NoEvent
    /\ ~ChanHasRoom(inbox)
    /\ ~BrokerLoopActive

\* C1, diagnosis: shutdown converges unless some actor is suspended in a send
\* that nothing will ever complete
C1_ConvergesUnlessStuckSender ==
    (ExitIssued /\ NoneStalled) ~>
        ((AllTasksEnded /\ pc = "done") \/ \E a \in ActorIds : StuckSender(a))

(* history helpers *)

InSeq(e, q) == \E i \in DOMAIN q : q[i] = e

\* the broker's own Exit event, sent by Daemon::stop
ExitEvent == NewEvent(<<"broker", 0>>, ExitPayload, 0)

\* q without the Exit event of Daemon::stop
Published(q) == LET NotExit(e) == e # ExitEvent IN SelectSeq(q, NotExit)

\* the events of q whose topic is in the topic set tp
OfTopics(q, tp) == LET Match(e) == TopicOf(e.payload) \in tp IN SelectSeq(q, Match)

\* C2: a subscriber registered with topic set S is handed exactly the events
\* the broker took from its inbound channel whose topic is in S, in that
\* order; what reaches its channel and its actor are events of those topics
\* (or the forced Exit); an event that matches no subscriber is handed to
\* nobody and every logged error is a failed send of a handed event.
C2_TopicFiltering ==
    /\ Len(subscribers) = Len(calls)
    /\ \A s \in SubIds :
        /\ Published(routed[s]) = OfTopics(seen, calls[s].topics)
        /\ \A e \in Range(delivered[subscribers[s].sender]) \cup Range(got[s]) :
               e = ExitEvent \/ TopicOf(e.payload) \in calls[s].topics
        /\ \A e \in Range(Published(routed[s])) :
               \/ InSeq(e, outbox[s])
               \/ InSeq(e, delivered[subscribers[s].sender])
               \/ \E i \in DOMAIN sendErrors : sendErrors[i] = [sub |-> s, event |-> e]
    /\ \A i \in DOMAIN sendErrors :
           /\ sendErrors[i].sub \in SubIds
           /\ InSeq(sendErrors[i].event, routed[sendErrors[i].sub])

\* C2, witness: an actor has received an event of a topic it subscribed to,
\* and the broker took another event that matches no subscriber: it was
\* handed to nobody and nothing was logged
C2_Witness ==
    /\ \E s \in SubIds, i \in DOMAIN seen :
        /\ TopicOf(seen[i].payload) \in calls[s].topics
        /\ InSeq(seen[i], got[s])
    /\ \E j \in DOMAIN seen :
        /\ BroadcastTo(seen[j], FALSE) = {}
        /\ \A s \in SubIds : ~InSeq(seen[j], routed[s])
    /\ sendErrors = <<>>

\* C3: once Daemon::stop has broadcast Exit, every registered subscriber has
\* been handed the Exit event exactly once, whatever its topic set: it is in
\* the subscriber's queue or channel, or its actor took it, or the send failed
\* on a dropped receiver; before that no subscriber is handed it, and every
\* other event a subscriber is handed matches its topics.
C3_ForcedBroadcast ==
    \A s \in SubIds :
        LET exits == {i \in DOMAIN routed[s] : routed[s][i] = ExitEvent}
            c     == subscribers[s].sender
        IN  /\ Cardinality(exits) = IF ExitIssued THEN 1 ELSE 0
            /\ ExitIssued =>
                   \/ InSeq(ExitEvent, outbox[s])
                   \/ InSeq(ExitEvent, chan[c])
                   \/ InSeq(ExitEvent, got[s])
                   \/ ~RxOpen(c)
            /\ \A i \in DOMAIN routed[s] \ exits :
                   TopicOf(routed[s][i].payload) \in subscribers[s].topics

\* C3, witness: an actor whose topic set does not contain System has taken
\* the Exit event of Daemon::stop from its channel
C3_Witness ==
    \E s \in SubIds :
        /\ "System" \notin subscribers[s].topics
        /\ InSeq(ExitEvent, got[s])
        /\ actors[s].st = "finished"

\* the event with history tag i is in q
HasId(q, i) == \E k \in DOMAIN q : q[k].id = i

\* C4: while the broker loop runs, an event the broker has handed to a
\* subscriber that is not stalled reaches that subscriber's actor (unless its
\* receiver is dropped first), also when another subscriber never takes an
\* event and its channel is full.
C4_StalledSubscriberDoesNotBlock ==
    \A s \in ActorIds, i \in 1 .. MaxEvents :
        (/\ BrokerLoopActive
         /\ s \in SubIds
         /\ ~actors[s].stalled
         /\ HasId(routed[s], i))
        ~> (\/ HasId(got[s], i)
            \/ ~RxOpen(NewChannel(s))
            \/ ~BrokerLoopActive)

\* C4, witness: a stalled subscriber's channel is full and the broker holds
\* an event back for it, while the actor of another subscriber has already
\* taken that same event
C4_Witness ==
    \E t, s \in SubIds :
        /\ t # s
        /\ actors[t].stalled
        /\ ~ChanHasRoom(chan[subscribers[t].sender])
        /\ outbox[t] # <<>>
        /\ InSeq(Head(outbox[t]), got[s])
        /\ BrokerLoopActive

\* the place of an event in the broker's receive order; the Exit event of
\* Daemon::stop comes after everything the broker loop took
RecvPos(e) == IF e = ExitEvent THEN Len(seen) + 1 ELSE CHOOSE k \in DOMAIN seen : seen[k] = e

InRecvOrder(q) ==
    /\ \A i \in DOMAIN q : q[i] = ExitEvent \/ InSeq(q[i], seen)
    /\ \A i, j \in DOMAIN q : i < j => RecvPos(q[i]) < RecvPos(q[j])

SpawnedCalls ==
    LET Spawned(i) == calls[i].ok
    IN  SelectSeq([i \in 1 .. Len(calls) |-> i], Spawned)

\* the handles the daemon retains (shutdown drains them)
Retained == IF pc \in {"shutdown", "done"} THEN retained ELSE tasks

\* C6: the retained handles are those of the calls whose spawn succeeded, in
\* call order, none for a failed spawn; every call, before or after a failed
\* one, has its subscription with the topics it was given; an actor is
\* spawned exactly when its spawn succeeded.
C6_SpawnFailureIsolation ==
    /\ Retained = SpawnedCalls
    /\ Len(subscribers) = Len(calls)
    /\ \A i \in DOMAIN calls :
        /\ subscribers[i] = [name |-> calls[i].name, sender |-> NewChannel(i),
                             topics |-> calls[i].topics]
        /\ calls[i].ok => actors[i].st \in {"running", "finished", "panicked"}
        /\ ~calls[i].ok => actors[i].st = "failed" /\ ~InSeq(i, Retained)

\* C6, witness: the first call's spawn failed, the second one's succeeded;
\* only the second actor's handle is retained and that actor has taken an
\* event from its channel
C6_Witness ==
    /\ Len(calls) = 2
    /\ ~calls[1].ok
    /\ calls[2].ok
    /\ tasks = <<2>>
    /\ got[2] # <<>>

\* C7: whatever sends have failed, nothing the broker handed to a subscriber
\* with a live receiver is lost or reordered (it is in its channel history or
\* still queued for it); only sends to dropped receivers fail; and the broker
\* loop still takes the next event.
C7_SendErrorNotFatal ==
    /\ \A s \in SubIds :
           RxOpen(subscribers[s].sender) =>
               routed[s] = delivered[subscribers[s].sender] \o outbox[s]
    /\ \A i \in DOMAIN sendErrors : ~RxOpen(subscribers[sendErrors[i].sub].sender)
    /\ (BrokerLoopActive /\ inbox # <<>>) => ENABLED BrokerRun

\* C7, witness: a send of an event failed on a dropped receiver, and the
\* actor of another subscriber has taken that event and a later one
C7_Witness ==
    \E i \in DOMAIN sendErrors, s \in SubIds :
        /\ RxOpen(subscribers[s].sender)
        /\ InSeq(sendErrors[i].event, got[s])
        /\ \E k \in DOMAIN got[s] :
               /\ InSeq(got[s][k], seen)
               /\ RecvPos(got[s][k]) > RecvPos(sendErrors[i].event)

\* the number of panicked tasks among the handles in q
Panicked(q) == Cardinality({i \in DOMAIN q : actors[q[i]].st = "panicked"})

\* C8: shutdown awaits the drained handles in order, logging one error per
\* panicked task; when it returns every retained handle has been awaited
\* and Daemon.tasks is empty.
C8_ShutdownJoinsAll ==
    /\ pc \in {"shutdown", "done"} =>
           /\ tasks = <<>>
           /\ joined \o drain = retained
           /\ joinErrors = Panicked(joined)
    /\ pc = "done" => drain = <<>> /\ joined = retained

\* C8, witness: shutdown has returned; the first handle it awaited was of a
\* panicked task, and it awaited another handle after it
C8_Witness ==
    /\ pc = "done"
    /\ Len(joined) >= 2
    /\ actors[joined[1]].st = "panicked"
    /\ joinErrors >= 1

\* C9: while the builder registers actors the broker takes no event and
\* hands none to a subscriber, whatever the spawned actors have emitted; the
\* subscriber table is complete when Daemon::run starts, and every event the
\* broker took has been handed to each subscriber of that table it matches.
C9_BuildBeforeEventsFlow ==
    /\ pc = "build" =>
           /\ seen = <<>>
           /\ \A s \in ActorIds : routed[s] = <<>> /\ outbox[s] = <<>> /\ delivered[s] = <<>>
    /\ \A i \in DOMAIN seen, s \in SubIds :
           TopicOf(seen[i].payload) \in subscribers[s].topics => InSeq(seen[i], routed[s])

\* C9, witness: during building, with one actor spawned and another still to
\* be registered, an emitted event waits in the broker's inbound channel
C9_Witness ==
    /\ pc = "build"
    /\ inbox # <<>>
    /\ Len(subscribers) = 1
    /\ Len(subscribers) < MaxActors

\* the Mode handles created by the orchestrator and still held: those in the
\* ActorState of every spawned actor and in its processors
ModeHandles ==
    {actors[a].mode : a \in {b \in ActorIds : actors[b].st # "none" /\ actors[b].st # "failed"}}
    \cup UNION {{actors[a].procs[k].mode : k \in DOMAIN actors[a].procs} : a \in ActorIds}

\* C10: every handle is a handle to the daemon's own Mode cell, so a read
\* through any of them returns the value of the last completed write
\* (PassThrough before the first one).
C10_ModeVisibility ==
    /\ ModeHandles \subseteq {DaemonMode}
    /\ \A r \in ModeHandles \cup {DaemonMode} : cells[r] = lastWritten

\* C10, witness: an actor has handled two mode-change events and written
\* Mode twice; another actor, with processors and yet to take its first
\* event, reads the second value
C10_Witness ==
    \E w, a \in ActorIds :
        /\ w # a
        /\ LET IsModeChange(e) == e.payload[1] = "ModeChange"
           IN  Len(SelectSeq(got[w], IsModeChange)) = 2
        /\ actors[w].st = "running"
        /\ actors[a].st = "running"
        /\ actors[a].procs # <<>>
        /\ got[a] = <<>>
        /\ lastWritten = "PassThrough"
        /\ cells[actors[a].procs[1].mode] = "PassThrough"

(* pipelines *)

\* the constructors of the processors in procs, in order
Ctors(procs) == [k \in DOMAIN procs |-> procs[k].ctor]

\* the outputs in q that are for the j-th inbound event
ForEvent(q, j) == LET Is(o) == o.for = j IN SelectSeq(q, Is)

\* the pipeline registered by call a holds one processor per factory of the
\* list the call was given, in the order of the list
BuiltInOrder(a) ==
    IF calls[a].ok
    THEN Ctors(actors[a].procs) = given[a]
    ELSE actors[a].procs = <<>> /\ got[a] = <<>>

\* the j-th event pipeline a handled went through the chain in order, and
\* stopped at a processor that yielded nothing
ChainedInOrder(a, j) ==
    LET tr    == ptrace[a][j]
        procs == given[a]
        n     == Len(procs)
        outs  == ForEvent(psent[a] \o pout[a], j)
        Yield(k) == FeedAll(procs[k], tr[k])
    IN  /\ Len(tr) = n
        /\ tr[1] = <<got[a][j]>>
        /\ \A k \in 2 .. n : tr[k] = Yield(k - 1)
        /\ [i \in DOMAIN outs |-> outs[i].event] = Yield(n)
        /\ \A k \in 1 .. n :
               (\A i \in DOMAIN tr[k] : Process(procs[k], tr[k][i]) = <<>>) =>
                   /\ \A m \in (k + 1) .. n : tr[m] = <<>>
                   /\ outs = <<>>

\* C11: a pipeline's processors are built one per factory, in the order of
\* the factory list, and are in place when the actor is spawned and never
\* change afterwards; every inbound event goes through them in that order,
\* each processor being fed what the one before it yielded; when a processor
\* yields nothing for an event no later processor is fed anything for it and
\* nothing is sent to the broker for it; outputs are sent in the order of
\* the events they are for.
C11_PipelineComposition ==
    /\ [](\A a \in DOMAIN calls :
              IsPipeline(a) =>
                  /\ BuiltInOrder(a)
                  /\ Len(ptrace[a]) = Len(Published(got[a]))
                  /\ \A j \in DOMAIN ptrace[a] : ChainedInOrder(a, j)
                  /\ \A i, j \in DOMAIN psent[a] : i < j => psent[a][i].for <= psent[a][j].for)
    /\ [][\A a \in ActorIds :
              /\ (actors[a].st = "none" /\ actors'[a].st = "running") =>
                     Ctors(actors'[a].procs) = given'[a]
              /\ actors[a].st = "running" => actors'[a].procs = actors[a].procs]_vars

\* C11, witness: a pipeline of three processors has handled two events; for
\* one the second processor yielded nothing, the third was fed nothing and
\* nothing was sent; the other passed all three and its output was sent
C11_Witness ==
    \E a \in DOMAIN calls :
        /\ IsPipeline(a)
        /\ Len(given[a]) = 3
        /\ Len(ptrace[a]) = 2
        /\ \E j, m \in DOMAIN ptrace[a] :
            /\ ptrace[a][j][2] # <<>>
            /\ ptrace[a][j][3] = <<>>
            /\ ForEvent(psent[a], j) = <<>>
            /\ ptrace[a][m][3] # <<>>
            /\ ForEvent(psent[a], m) # <<>>
            /\ pout[a] = <<>>

(* topic classifier *)

\* the topic the classification table files a variant under
TableTopic(variant) ==
    IF variant \in {"KeyPress", "KeyRelease"} THEN {"KeyInput"}
    ELSE IF variant = "HidReport" THEN {"KeyOutput"}
    ELSE IF variant \in {"SendText", "SendFile"} THEN {"TextInput"}
    ELSE IF variant = "TextSent" THEN {"Monitoring"}
    ELSE IF variant = "CurrentStats" THEN {"Stats"}
    ELSE IF variant \in {"ModeChange", "Exit", "Sleep", "WakeUp"} THEN {"System"}
    ELSE IF variant = "ReportSent" THEN {"Telemetry"}
    ELSE {}

\* C12: every call of the classifier, for any of the 12 variants and any
\* field values, returns one topic of the Topic enum, the one the table
\* names for the variant, and the same one as every other call for the
\* same variant.
C12_TopicClassification ==
    /\ Cardinality(DomainEvents) = 12
    /\ \A i \in DOMAIN classified :
        /\ classified[i].payload[1] \in DomainEvents
        /\ classified[i].topic \in Topics
        /\ TableTopic(classified[i].payload[1]) = {classified[i].topic}
    /\ \A i, j \in DOMAIN classified :
           classified[i].payload[1] = classified[j].payload[1] =>
               classified[i].topic = classified[j].topic

\* C12, witness: the classifier was called twice for the same variant with
\* different field values and answered System both times
C12_Witness ==
    /\ Len(classified) = 2
    /\ classified[1].payload = <<"ModeChange", "PassThrough">>
    /\ classified[2].payload = <<"ModeChange", "InApp">>
    /\ classified[2].topic = "System"

(* AppManager *)

\* C16: a mode-change message makes "charonsay" (PassThrough) or "menu"
\* (InApp) the active screen and returns Render, awake or asleep, without
\* touching is_awake and without asking any app; Sleep and WakeUp set
\* is_awake to false and true, leave the active screen alone and return no
\* command.
C16_UiSelection ==
    LET b == last.before
        a == last.after
    IN  /\ (last.msg[1] = "Backend" /\ last.msg[2] = "ModeChange") =>
               /\ last.msg[3] = "PassThrough" => a.active_id = "charonsay"
               /\ last.msg[3] = "InApp" => a.active_id = "menu"
               /\ last.cmd = Render
               /\ a.is_awake = b.is_awake
               /\ a.apps = b.apps
               /\ last.to = "none"
        /\ (last.msg[1] = "Backend" /\ last.msg[2] \in {"Sleep", "WakeUp"}) =>
               /\ a.is_awake = (last.msg[2] = "WakeUp")
               /\ a.active_id = b.active_id
               /\ a.apps = b.apps
               /\ last.cmd = NoCmd
               /\ last.to = "none"

\* C16, witness: asleep, with "charonsay" on screen, the manager was given
\* ModeChange(InApp): "menu" is the active screen, Render was returned and
\* the manager is still asleep
C16_Witness ==
    /\ last.msg = Backend(<<"ModeChange", "InApp">>)
    /\ ~last.before.is_awake
    /\ last.before.active_id = "charonsay"
    /\ app_mngr.active_id = "menu"
    /\ ~app_mngr.is_awake
    /\ last.cmd = Render

\* an AppManager has been constructed
Constructed == app_mngr # NoManager

\* C19, as claimed: active_id names an app of the map after any sequence of
\* update and set_active calls, for any map that held it at construction.
C19_ActiveIsRegistered == Constructed => app_mngr.active_id \in app_mngr.apps

\* the map holds both screens mode_screen can name
HasModeScreens == {ModeScreen(m) : m \in Modes} \subseteq app_mngr.apps

\* C19, amended: when the map holds the apps "charonsay" and "menu" and held
\* active_id at construction, active_id names an app of the map after any
\* sequence of update and set_active calls; and whatever the map, active_id
\* is an app of the map or one of the two mode screens.
C19_ActiveIsRegisteredOrModeScreen ==
    Constructed =>
        /\ HasModeScreens => app_mngr.active_id \in app_mngr.apps
        /\ app_mngr.active_id \in app_mngr.apps \cup {ModeScreen(m) : m \in Modes}

\* C19, witness: with both mode screens in the map, the second call made
\* was a mode change that switched the active app from "charonsay" to "menu"
C19_Witness ==
    /\ HasModeScreens
    /\ last.msg = Backend(<<"ModeChange", "InApp">>)
    /\ last.before.active_id = "charonsay"
    /\ app_mngr.active_id = "menu"
    /\ turns = 2

(* CharonClient *)

IsBackend(m) == m[1] = "Backend"

\* the Backend messages among the messages q
BackendOnly(q) == SelectSeq(q, IsBackend)

\* the lines of q that hold one serialized Event, as the messages they carry
RECURSIVE EventsOf(_)
EventsOf(q) ==
    IF q = <<>> THEN <<>>
    ELSE (IF WellFormed(Head(q).rec)
          THEN <<<<"Backend", Head(q).rec[2], Head(q).rec[3]>>>>
          ELSE <<>>) \o EventsOf(Tail(q))

\* a line that is not empty and is not a serialized Event
Malformed(rec) == rec # Eof /\ ~WellFormed(rec)

\* C13: a non-empty line that does not parse hands nothing to the app
\* manager (the number of messages dispatched is the same after its branch),
\* leaves should_quit false and the buffer empty; the Backend messages
\* dispatched are exactly the well-formed lines read, in order, whatever
\* malformed lines came before them; the buffer is empty whenever the loop
\* waits for the next line.
C13_MalformedLineDiscarded ==
    /\ BackendOnly(dispatched) = EventsOf(lines)
    /\ \A i \in DOMAIN lines :
           Malformed(lines[i].rec) =>
               /\ ~lines[i].quit
               /\ lines[i].buf = <<>>
               /\ lines[i].sent = lines[i].at
    /\ \A i \in DOMAIN lines :
           WellFormed(lines[i].rec) =>
               /\ lines[i].sent = lines[i].at + 1
               /\ dispatched[lines[i].sent] = <<"Backend", lines[i].rec[2], lines[i].rec[3]>>
    /\ cpc = "select" => line = <<>> /\ ~should_quit

\* C13, witness: the client read a line that does not parse and then a
\* well-formed record, which it dispatched; it is back waiting for input
C13_Witness ==
    /\ Len(lines) = 2
    /\ lines[1].rec = <<"garbage", "none", "none">>
    /\ lines[2].rec = <<"event", "KeyPress", "a">>
    /\ dispatched = <<Backend(<<"KeyPress", "a">>)>>
    /\ turns = 2
    /\ cpc = "select"

\* C14: the zero-length read is the last thing run does: should_quit is
\* set, run has returned, no message was dispatched and no loop turn was
\* made after it, and no command is in hand.
C14_PeerClosedTermination ==
    \A i \in DOMAIN lines :
        lines[i].rec = Eof =>
            /\ i = Len(lines)
            /\ should_quit
            /\ cpc = "returned"
            /\ Len(dispatched) = lines[i].at
            /\ turns = lines[i].turn
            /\ call = NoMsg
            /\ stack = <<>>
            /\ line = <<>>

\* C14, witness: after a record was dispatched and handled, the read
\* returned zero bytes while a turn was still left, and run has returned
C14_Witness ==
    /\ Len(lines) = 2
    /\ WellFormed(lines[1].rec)
    /\ lines[2].rec = Eof
    /\ cpc = "returned"
    /\ turns < MaxEvents + 1
    /\ Len(dispatched) = 1

\* C15: the handling of one incoming message never has MaxDepth RunApp
\* commands in hand, one inside the other: the nesting of update_with_msg
\* and handle_command stays below a fixed depth whatever the apps return.
C15_BoundedCommandHandling == Len(stack) < MaxDepth

\* the steps a RunApp command for a registered app has taken so far are the
\* first steps of: Deactivate to the app active before, that app made
\* active, Activate to it
SwitchProtocol(app, prev) ==
    <<<<"Deactivate", prev>>, <<"set_active", app>>, <<"Activate", app>>>>

IsPrefix(q, r) == Len(q) <= Len(r) /\ q = SubSeq(r, 1, Len(q))

\* C20: a RunApp command for a registered app has handed Deactivate to the
\* app that was active, then made the app active, then handed Activate to
\* it, in that order and nothing else of its own (a command an app returns
\* for Deactivate or Activate is handled in between, as a command of its
\* own); a RunApp command for an unregistered app left the active app as it
\* was and handed neither message to any app; a command still in hand has
\* done the first steps of the protocol.
C20_AppSwitchProtocol ==
    /\ switched # NoSwitch =>
           IF switched.registered
           THEN /\ switched.did = SwitchProtocol(switched.app, switched.prev)
                /\ switched.prev \in app_mngr.apps
           ELSE /\ switched.did = <<>>
                /\ switched.after = switched.prev
    /\ \A k \in DOMAIN stack :
           /\ stack[k].app \in app_mngr.apps
           /\ IsPrefix(stack[k].did, SwitchProtocol(stack[k].app, stack[k].prev))

\* C20, witness: a RunApp command has switched from "menu" to "editor" and
\* is done, and the client is back waiting for input
C20_Witness ==
    /\ switched.registered
    /\ switched.prev = "menu"
    /\ switched.app = "editor"
    /\ Len(switched.did) = 3
    /\ app_mngr.active_id = "editor"
    /\ stack = <<>>
    /\ cpc = "select"

\* C20, the refusal reached: a RunApp command for an app the map lacks was
\* refused while "menu" was active
C20_Refused ==
    /\ switched # NoSwitch
    /\ ~switched.registered
    /\ switched.app = "charonsay"
    /\ switched.prev = "menu"
    /\ app_mngr.active_id = "menu"
    /\ "charonsay" \notin app_mngr.apps

(* ------------------- the end of Daemon::run (C17) --------------------- *)

\* every task the daemon spawned has ended, and with it the ActorState that
\* held its clone of the inbound sender
SpawnedTasksEnded == tasks # <<>> /\ AllTasksEnded

\* C17: while the caller awaits Daemon::run, once every spawned actor task
\* has ended and dropped its clone of the inbound sender, no sender of the
\* broker's inbound channel is left: the channel closes, so that the broker
\* loop can return and run can go on to the forced Exit broadcast.
C17_RunCanFinish == (pc = "run" /\ SpawnedTasksEnded) => InboundSenders = {}

(* ------------- subscriber entries and task handles (C18) -------------- *)

\* the channels the broker holds a subscriber entry for
Subscribed == {subscribers[s].sender : s \in SubIds}

\* the channels of the actors whose task handle the daemon retains
Handled == {NewChannel(Retained[k]) : k \in DOMAIN Retained}

\* the registrations whose spawn failed
FailedCalls == {i \in DOMAIN calls : ~calls[i].ok}

\* C18 as stated: the subscriber entries and the retained task handles are
\* in one-to-one correspondence, an actor whose spawn failed having neither
\* a subscriber entry nor a task handle.
C18_SubscribersMatchHandles ==
    /\ Len(subscribers) = Len(Retained)
    /\ Subscribed = Handled
    /\ \A i \in FailedCalls : NewChannel(i) \notin Subscribed \cup Handled

\* a step of add_actor_conditionally with should_add false
Excludes == excluded' = excluded + 1

\* C18, amended: every retained task handle has its subscriber entry, and
\* the subscriber entries without a handle are exactly those of the
\* registrations whose spawn failed, one each; a conditionally excluded
\* actor adds neither a subscriber entry nor a task handle.
C18_HandlesAmongSubscribers ==
    /\ [](/\ Handled \subseteq Subscribed
          /\ Subscribed \ Handled = {NewChannel(i) : i \in FailedCalls}
          /\ Cardinality(Subscribed) = Len(subscribers)
          /\ Len(subscribers) = Len(Retained) + Cardinality(FailedCalls))
    /\ [][Excludes => subscribers' = subscribers /\ tasks' = tasks]_vars

\* C18, witness: of two registration calls one was conditionally excluded
\* and the other one's spawn failed: the broker holds one subscriber entry
\* and the daemon no task handle
C18_Witness ==
    /\ excluded = 1
    /\ Len(calls) = 1
    /\ ~calls[1].ok
    /\ Len(subscribers) = 1
    /\ tasks = <<>>
    /\ pc = "build"

====
